---- MODULE Spec2Model ----
(***************************************************************************)
(* HanSign Architect: the signature pad (src/components/SignaturePad.tsx), *)
(* its geometry helpers and the Controls handlers that feed it options.    *)
(*                                                                         *)
(* JavaScript numbers are modelled as exact rationals <<num, den>> in      *)
(* lowest terms with den > 0.  React state (strokes, currentStroke) is     *)
(* committed and the component re-rendered before the next event is        *)
(* handled, so every handler reads the state its predecessor left; refs    *)
(* (isDrawing, lastPoint, lastWidth) are plain mutable cells.  A replay    *)
(* loop keeps the closure it was started from: the strokes and the         *)
(* drawCurve (hence the options) of the render in which replay() ran.      *)
(***************************************************************************)
EXTENDS Integers, Sequences, FiniteSets, TLC

(* ------------------------------ bounds -------------------------------- *)
MaxStrokes == 2       \* pointer-downs in one behaviour
MaxPoints == 3        \* samples accepted after one pointer-down
MaxTime == 1          \* last reading of the millisecond clock
MaxReplays == 2       \* replay() calls in one behaviour
MaxOptionChanges == 1 \* Controls changes in one behaviour
MaxSweepPoints == 4   \* samples of the single stroke of StrokeSpec
MaxSweepTime == 2     \* last reading of the clock in StrokeSpec

(* ----------------------- numbers: exact rationals ---------------------- *)
Abs(n) == IF n < 0 THEN -n ELSE n

RECURSIVE GCD(_, _)
GCD(a, b) == IF b = 0 THEN a ELSE GCD(b, a % b)

\* n/d with the common factor g taken out and the sign carried by the numerator
Lowest(n, d, g) ==
    IF d < 0 THEN <<-(n \div g), -(d \div g)>> ELSE <<n \div g, d \div g>>

Rat(n, d) == Lowest(n, d, GCD(Abs(n), Abs(d)))

Int2R(n) == <<n, 1>>

AddOver(a, b, g) ==
    Rat(a[1] * (b[2] \div g) + b[1] * (a[2] \div g), (a[2] \div g) * b[2])

RAdd(a, b) == AddOver(a, b, GCD(a[2], b[2]))

RNeg(a) == <<-a[1], a[2]>>

RSub(a, b) == RAdd(a, RNeg(b))

MulOver(a, b, g1, g2) ==
    Rat((a[1] \div g1) * (b[1] \div g2), (a[2] \div g2) * (b[2] \div g1))

RMul(a, b) == MulOver(a, b, GCD(Abs(a[1]), b[2]), GCD(Abs(b[1]), a[2]))

RDiv(a, b) == RMul(a, IF b[1] < 0 THEN <<-b[2], -b[1]>> ELSE <<b[2], b[1]>>)

RLt(a, b) == RSub(a, b)[1] < 0

RLe(a, b) == RSub(a, b)[1] <= 0

RMin(a, b) == IF RLe(a, b) THEN a ELSE b

RMax(a, b) == IF RLe(a, b) THEN b ELSE a

\* the r in lo .. hi - 1 with r * r <= n < (r + 1) * (r + 1)
RECURSIVE Bisect(_, _, _)
Bisect(n, lo, hi) ==
    IF hi - lo <= 1 THEN lo
    ELSE IF ((lo + hi) \div 2) * ((lo + hi) \div 2) <= n
         THEN Bisect(n, (lo + hi) \div 2, hi)
         ELSE Bisect(n, lo, (lo + hi) \div 2)

\* floor of the square root of a natural number
ISqrt(n) == Bisect(n, 0, IF n + 1 < 46340 THEN n + 1 ELSE 46340)

\* Math.sqrt: exact when numerator and denominator are perfect squares
RSqrt(a) == Rat(ISqrt(a[1]), ISqrt(a[2]))

\* Math.pow(x, 2)
RSquare(a) == RMul(a, a)

\* the number literals of the source
Half == <<1, 2>>
Zero == <<0, 1>>

(* ------------------------------- data --------------------------------- *)
Tools == {"pen", "pencil", "calligraphy"}

\* bounding rectangle of the canvas in client coordinates, device pixel ratio
RectLeft == 0
RectTop == 0
RectWidth == 800
RectHeight == 400
Dpr == 2

\* the pointer events the browser delivers: samples on one line through the
\* origin, a mouse (pressure 0.5 while a button is down) and a stylus
PointerEvents ==
    { [clientX |-> Int2R(3), clientY |-> Int2R(4), pressure |-> Half,     pointerType |-> "mouse"],
      [clientX |-> Int2R(6), clientY |-> Int2R(8), pressure |-> Int2R(1), pointerType |-> "pen"] }

\* the initial DrawingOptions of App
InitialOptions ==
    [ color      |-> <<0, 0, 0>>,
      minWidth   |-> <<3, 2>>,
      maxWidth   |-> <<5, 2>>,
      smoothing  |-> Half,
      streamline |-> <<3, 5>>,
      tool       |-> "pen" ]

(* ------------------------ src/utils/geometry --------------------------- *)
getDistance(p1, p2) ==
    RSqrt(RAdd(RSquare(RSub(p1.x, p2.x)), RSquare(RSub(p1.y, p2.y))))

getVelocity(p1, p2) ==
    IF p2.time - p1.time > 0
    THEN RDiv(getDistance(p1, p2), Int2R(p2.time - p1.time))
    ELSE Zero

lerp(start, end, t) == RAdd(RMul(start, RSub(Int2R(1), t)), RMul(end, t))

\* e.pressure || 0.5
OrHalf(pressure) == IF pressure = Zero THEN Half ELSE pressure

getMidPoint(p1, p2) ==
    [ x           |-> RAdd(p1.x, RDiv(RSub(p2.x, p1.x), Int2R(2))),
      y           |-> RAdd(p1.y, RDiv(RSub(p2.y, p1.y), Int2R(2))),
      time        |-> RAdd(Int2R(p1.time), RDiv(Int2R(p2.time - p1.time), Int2R(2))),
      pressure    |-> RAdd(OrHalf(p1.pressure),
                           RDiv(RSub(OrHalf(p2.pressure), OrHalf(p1.pressure)), Int2R(2))),
      pointerType |-> p1.pointerType ]

(* ----------------------------- drawCurve ------------------------------- *)
\* dist / (p2.time - p1.time + 1)
CurveVelocity(p1, p2) == RDiv(getDistance(p1, p2), Int2R(p2.time - p1.time + 1))

\* Math.min(velocity, maxSpeed) / maxSpeed
NormalizedSpeed(velocity, maxSpeed) == RDiv(RMin(velocity, maxSpeed), maxSpeed)

\* the tool-specific target width of the segment whose older samples are p1, p2
TargetWidth(opts, p1, p2) ==
    IF opts.tool = "pencil" THEN
        RMax(Half, RMul(opts.maxWidth, <<2, 5>>))
    ELSE IF opts.tool = "calligraphy" THEN
        IF p2.pointerType = "pen" THEN
            RAdd(opts.minWidth,
                 RMul(RSub(RMul(opts.maxWidth, <<3, 2>>), opts.minWidth),
                      RSquare(OrHalf(p2.pressure))))
        ELSE
            RSub(RMul(opts.maxWidth, <<3, 2>>),
                 RMul(NormalizedSpeed(CurveVelocity(p1, p2), <<7, 2>>),
                      RSub(RMul(opts.maxWidth, <<3, 2>>), RMul(opts.minWidth, Half))))
    ELSE
        IF p2.pointerType = "pen" THEN
            RMul(RAdd(opts.minWidth,
                      RMul(RSub(opts.maxWidth, opts.minWidth), OrHalf(p2.pressure))),
                 <<11, 10>>)
        ELSE
            RSub(opts.maxWidth,
                 RMul(NormalizedSpeed(CurveVelocity(p1, p2), <<5, 2>>),
                      RSub(opts.maxWidth, opts.minWidth)))

SmoothingFactor(opts) == IF opts.tool = "pencil" THEN <<1, 5>> ELSE <<3, 5>>

\* lastWidth * smoothingFactor + targetWidth * (1 - smoothingFactor)
BlendedWidth(opts, lw, p1, p2) ==
    RAdd(RMul(lw, SmoothingFactor(opts)),
         RMul(TargetWidth(opts, p1, p2), RSub(Int2R(1), SmoothingFactor(opts))))

\* the stroke style with the pencil's transparency forgotten
StrokeStyleOpaque(opts) ==
    [r |-> opts.color[1], g |-> opts.color[2], b |-> opts.color[3], alpha |-> Int2R(1)]

\* ctx.strokeStyle: the colour '#rrggbb' is the triple <<r, g, b>> of its bytes
StrokeStyle(opts) ==
    IF opts.tool = "pencil"
    THEN [r |-> opts.color[1], g |-> opts.color[2], b |-> opts.color[3], alpha |-> <<7, 10>>]
    ELSE [r |-> opts.color[1], g |-> opts.color[2], b |-> opts.color[3], alpha |-> Int2R(1)]

\* drawCurve returning early below 4 points instead of 3
PaintsFromFour(points) == Len(points) >= 4

\* whether drawCurve paints at all
Paints(points) == Len(points) >= 3

\* the quadratic segment from mid1 through p2 to mid2, stroked at `width`
Segment(opts, mid1, p2, mid2, width) ==
    [ from  |-> <<mid1.x, mid1.y>>,
      ctrl  |-> <<p2.x, p2.y>>,
      to    |-> <<mid2.x, mid2.y>>,
      width |-> width,
      style |-> StrokeStyle(opts) ]

\* the segment drawCurve strokes for p1, p2, p3, lastWidth being lw
CurveSegment(opts, lw, p1, p2, p3) ==
    Segment(opts, getMidPoint(p1, p2), p2, getMidPoint(p2, p3),
            BlendedWidth(opts, lw, p1, p2))

Painted(seg) == [painted |-> <<seg>>, lastWidth |-> seg.width]

\* drawCurve(ctx, points): the paint calls it makes and the lastWidth it leaves
drawCurve(opts, lw, points) ==
    IF ~Paints(points)
    THEN [painted |-> <<>>, lastWidth |-> lw]
    ELSE Painted(CurveSegment(opts, lw, points[Len(points) - 2],
                              points[Len(points) - 1], points[Len(points)]))

NoPoint == [none |-> TRUE]

VARIABLES
    strokes,        \* useState<Stroke[]>: the completed strokes
    currentStroke,  \* useState<Stroke>: the active stroke
    isDrawing,      \* useRef(false)
    lastPoint,      \* useRef<Point | null>
    lastVelocity,   \* useRef<number>
    lastWidth,      \* useRef<number>
    options,        \* the DrawingOptions prop (App's state)
    canvas,         \* the paint calls on the surface since it was last wiped
    loops,          \* the replay loops with an animation frame pending
    now,            \* the last reading of Date.now()
    ev,             \* the operation handled last and what it produced
    hist            \* history: counters and the record of the live capture

vars == <<strokes, currentStroke, isDrawing, lastPoint, lastVelocity, lastWidth,
          options, canvas, loops, now, ev, hist>>

Min(a, b) == IF a <= b THEN a ELSE b

\* getPoint(e), the clock reading being t
getPoint(e, t) ==
    [ x           |-> RSub(e.clientX, Int2R(RectLeft)),
      y           |-> RSub(e.clientY, Int2R(RectTop)),
      pressure    |-> e.pressure,
      time        |-> t,
      pointerType |-> e.pointerType ]

\* the readings Date.now() can give after the reading `now`
ClockReadings == now .. hist.budget.time

\* what the last operation was, whether the one before it was the same, how
\* many segments it painted, whether a cancelled replay loop painted in it,
\* and the artifact it handed out
Event(op, painted, stale, out) ==
    [op |-> op, again |-> ev.op = op, painted |-> painted, stale |-> stale, out |-> out]

NoOutput == <<>>

\* the record of one live capture: the samples accepted and the segments
\* painted since its pointer-down, the options it began under, and whether
\* it ran undisturbed (no option change, clear or replay paint meanwhile)
NoCapture == [accepted |-> <<>>, segs |-> <<>>, opts |-> InitialOptions, whole |-> FALSE]

Disturbed(c) == [c EXCEPT !.whole = FALSE]

\* the behaviours explored: how many pointer-downs, replay() calls and
\* Controls changes one behaviour may hold, how many samples one stroke may
\* take and how far the clock may run (time 0: every sample is taken at
\* the same reading of Date.now(), so that the clock adds nothing to the
\* behaviours with replays beside a second stroke or an option change)
Budgets ==
    { [downs |-> MaxStrokes, replays |-> 0,          optionChanges |-> 0,
       points |-> MaxPoints, time |-> MaxTime],
      [downs |-> 1,          replays |-> MaxReplays, optionChanges |-> 0,
       points |-> MaxPoints, time |-> MaxTime],
      [downs |-> 1,          replays |-> 0,          optionChanges |-> MaxOptionChanges,
       points |-> MaxPoints, time |-> MaxTime],
      [downs |-> 1,          replays |-> 1,          optionChanges |-> MaxOptionChanges,
       points |-> MaxPoints, time |-> 0],
      [downs |-> MaxStrokes, replays |-> 1,          optionChanges |-> 0,
       points |-> MaxPoints, time |-> 0] }

\* the component as constructed, the behaviour explored being `budget`
Constructed(budget) ==
    /\ strokes = <<>>
    /\ currentStroke = <<>>
    /\ isDrawing = FALSE
    /\ lastPoint = NoPoint
    /\ lastVelocity = Zero
    /\ lastWidth = InitialOptions.maxWidth
    /\ canvas = <<>>
    /\ loops = <<>>
    /\ now = 0
    /\ ev = [op |-> "init", again |-> FALSE, painted |-> 0, stale |-> FALSE, out |-> NoOutput]
    /\ hist = [budget |-> budget, downs |-> 0, moves |-> 0, replays |-> 0,
               optionChanges |-> 0, cur |-> NoCapture, live |-> <<>>, runs |-> <<>>]

Init ==
    /\ options = InitialOptions
    /\ \E budget \in Budgets : Constructed(budget)

\* every pending loop is marked by a cancelling request ...
Cancel(ls) == [i \in DOMAIN ls |-> [ls[i] EXCEPT !.cancelled = TRUE]]

\* ... and no longer alone on lastWidth once someone else writes it
Unclean(ls) == [i \in DOMAIN ls |-> [ls[i] EXCEPT !.clean = FALSE]]

\* no initial guess: the width memory of the stroke before is kept
InitialWidthSticky(opts, e) == lastWidth

\* the initial width guess of handlePointerDown
InitialWidth(opts, e) ==
    IF opts.tool = "pencil" THEN RMul(opts.maxWidth, Half)
    ELSE IF e.pointerType = "pen" THEN
        RAdd(opts.minWidth, RMul(RSub(opts.maxWidth, opts.minWidth), OrHalf(e.pressure)))
    ELSE RDiv(RAdd(opts.minWidth, opts.maxWidth), Int2R(2))

\* handlePointerDown once getPoint(e) has given `point`
BeginStroke(e, point) ==
    /\ isDrawing' = TRUE
    /\ lastPoint' = point
    /\ currentStroke' = <<point>>
    /\ lastVelocity' = Zero
    /\ lastWidth' = InitialWidth(options, e)
    /\ now' = point.time
    /\ loops' = Unclean(Cancel(loops))
    /\ ev' = Event("down", 0, FALSE, NoOutput)
    /\ hist' = [hist EXCEPT !.downs = @ + 1, !.moves = 0,
                            !.cur = [accepted |-> <<point>>, segs |-> <<>>,
                                     opts |-> options, whole |-> TRUE]]
    /\ UNCHANGED <<strokes, options, canvas>>

handlePointerDown(e, t) ==
    /\ hist.downs < hist.budget.downs
    /\ BeginStroke(e, getPoint(e, t))

\* the stabilizer of handlePointerMove
EffectiveStreamline(opts) ==
    IF opts.tool = "pencil" THEN RMul(opts.streamline, Half) ELSE opts.streamline

\* a stabilizer that weighs the raw sample by the streamline instead of its
\* complement
StabilizeTowardsRaw(opts, lp, point) ==
    IF lp # NoPoint /\ RLt(Zero, EffectiveStreamline(opts))
    THEN [point EXCEPT !.x = lerp(lp.x, point.x, EffectiveStreamline(opts)),
                       !.y = lerp(lp.y, point.y, EffectiveStreamline(opts))]
    ELSE point

Stabilize(opts, lp, point) ==
    IF lp # NoPoint /\ RLt(Zero, EffectiveStreamline(opts))
    THEN [point EXCEPT !.x = lerp(lp.x, point.x, RSub(Int2R(1), EffectiveStreamline(opts))),
                       !.y = lerp(lp.y, point.y, RSub(Int2R(1), EffectiveStreamline(opts)))]
    ELSE point

\* the state update of handlePointerMove: newStroke is stored, `drawn` is
\* what drawCurve(ctx, newStroke) did
ExtendStroke(point, newStroke, drawn) ==
    /\ currentStroke' = newStroke
    /\ canvas' = canvas \o drawn.painted
    /\ lastWidth' = drawn.lastWidth
    /\ lastPoint' = point
    /\ now' = point.time
    /\ loops' = IF drawn.painted # <<>> THEN Unclean(loops) ELSE loops
    /\ ev' = Event("move", Len(drawn.painted), FALSE, NoOutput)
    /\ hist' = [hist EXCEPT !.moves = @ + 1,
                            !.cur.accepted = Append(@, point),
                            !.cur.segs = @ \o drawn.painted]
    /\ UNCHANGED <<strokes, isDrawing, lastVelocity, options>>

AcceptPoint(point) ==
    ExtendStroke(point, Append(currentStroke, point),
                 drawCurve(options, lastWidth, Append(currentStroke, point)))

handlePointerMove(e, t) ==
    IF ~isDrawing
    THEN /\ ev' = Event("move", 0, FALSE, NoOutput)
         /\ UNCHANGED <<strokes, currentStroke, isDrawing, lastPoint, lastVelocity,
                        lastWidth, options, canvas, loops, now, hist>>
    ELSE /\ hist.moves < hist.budget.points - 1
         /\ AcceptPoint(Stabilize(options, lastPoint, getPoint(e, t)))

\* a handler that commits whether or not a stroke is in progress
handlePointerUpUnguarded ==
    /\ isDrawing' = FALSE
    /\ strokes' = Append(strokes, currentStroke)
    /\ currentStroke' = <<>>
    /\ lastPoint' = NoPoint
    /\ ev' = Event("up", 0, FALSE, NoOutput)
    /\ hist' = [hist EXCEPT !.live = Append(@, hist.cur)]
    /\ UNCHANGED <<lastVelocity, lastWidth, options, canvas, loops, now>>

\* the handler of both onPointerUp and onPointerLeave
handlePointerUp ==
    IF ~isDrawing
    THEN /\ ev' = Event("up", 0, FALSE, NoOutput)
         /\ UNCHANGED <<strokes, currentStroke, isDrawing, lastPoint, lastVelocity,
                        lastWidth, options, canvas, loops, now, hist>>
    ELSE /\ isDrawing' = FALSE
         /\ strokes' = Append(strokes, currentStroke)
         /\ currentStroke' = <<>>
         /\ lastPoint' = NoPoint
         /\ ev' = Event("up", 0, FALSE, NoOutput)
         /\ hist' = [hist EXCEPT !.live = Append(@, hist.cur)]
         /\ UNCHANGED <<lastVelocity, lastWidth, options, canvas, loops, now>>

\* clear() without its setCurrentStroke([])
clearLeavesActive ==
    /\ strokes' = <<>>
    /\ canvas' = <<>>
    /\ loops' = Cancel(loops)
    /\ ev' = Event("clear", 0, FALSE, NoOutput)
    /\ hist' = [hist EXCEPT !.live = <<>>, !.cur = Disturbed(@)]
    /\ UNCHANGED <<currentStroke, isDrawing, lastPoint, lastVelocity, lastWidth, options, now>>

\* clear() of the imperative handle, and the effect that wipes the surface
\* again once both stroke states are empty
clear ==
    /\ strokes' = <<>>
    /\ currentStroke' = <<>>
    /\ canvas' = <<>>
    /\ loops' = Cancel(loops)
    /\ ev' = Event("clear", 0, FALSE, NoOutput)
    /\ hist' = [hist EXCEPT !.live = <<>>, !.cur = Disturbed(@)]
    /\ UNCHANGED <<isDrawing, lastPoint, lastVelocity, lastWidth, options, now>>

isEmpty == Len(strokes) = 0 /\ Len(currentStroke) = 0

(* ------------------------------ replay --------------------------------- *)
RECURSIVE Flatten(_)
Flatten(ss) == IF ss = <<>> THEN <<>> ELSE Head(ss) \o Flatten(Tail(ss))

\* stroke.slice(0, end)
Slice(stroke, end) == SubSeq(stroke, 1, Min(end, Len(stroke)))

\* drawNext after its drawCurve call did `drawn`
Stepped(l, drawn) ==
    [ loop      |-> [l EXCEPT !.pointIdx = @ + 1, !.segs = @ \o drawn.painted],
      lastWidth |-> drawn.lastWidth,
      painted   |-> drawn.painted,
      pending   |-> TRUE ]

\* drawNext that starts the exhausted stroke over instead of leaving it
drawNextSameStroke(l, lw) ==
    IF l.strokeIdx >= Len(l.allStrokes)
    THEN [loop |-> l, lastWidth |-> lw, painted |-> <<>>, pending |-> FALSE]
    ELSE IF l.pointIdx < Len(l.allStrokes[l.strokeIdx + 1]) - 1
         THEN Stepped(l, drawCurve(l.opts, lw,
                                   Slice(l.allStrokes[l.strokeIdx + 1], l.pointIdx + 3)))
         ELSE [ loop      |-> [l EXCEPT !.pointIdx = 0],
                lastWidth |-> lw,
                painted   |-> <<>>,
                pending   |-> TRUE ]

\* one call of drawNext for the loop `l`, lastWidth being lw: the loop as it
\* leaves it, the paint calls, and whether it asked for another frame
drawNext(l, lw) ==
    IF l.strokeIdx >= Len(l.allStrokes)
    THEN [loop |-> l, lastWidth |-> lw, painted |-> <<>>, pending |-> FALSE]
    ELSE IF l.pointIdx < Len(l.allStrokes[l.strokeIdx + 1]) - 1
         THEN Stepped(l, drawCurve(l.opts, lw,
                                   Slice(l.allStrokes[l.strokeIdx + 1], l.pointIdx + 3)))
         ELSE [ loop      |-> [l EXCEPT !.strokeIdx = @ + 1, !.pointIdx = 0],
                lastWidth |-> lw,
                painted   |-> <<>>,
                pending   |-> TRUE ]

\* a finished run, as the history keeps it
Run(l) == [allStrokes |-> l.allStrokes, opts |-> l.opts, segs |-> l.segs,
           clean |-> l.clean, expected |-> l.expected, comparable |-> l.comparable]

\* the closure of animateDrawing(allStrokes): strokeIdx = pointIdx = 0, with
\* the history's view of it (what it painted, whether a later request
\* cancelled it, whether it alone wrote lastWidth, and the live capture of
\* the same strokes)
NewLoop(allStrokes) ==
    [ allStrokes |-> allStrokes,
      opts       |-> options,
      strokeIdx  |-> 0,
      pointIdx   |-> 0,
      segs       |-> <<>>,
      cancelled  |-> FALSE,
      clean      |-> loops = <<>>,
      expected   |-> Flatten([i \in DOMAIN hist.live |-> hist.live[i].segs]),
      comparable |-> /\ Len(hist.live) = Len(allStrokes)
                     /\ \A i \in DOMAIN hist.live :
                            /\ hist.live[i].whole
                            /\ hist.live[i].opts = options
                            /\ hist.live[i].accepted = allStrokes[i] ]

\* animateDrawing once the surface is wiped and the first drawNext() did `step`
Started(step) ==
    /\ canvas' = step.painted
    /\ lastWidth' = step.lastWidth
    /\ loops' = IF step.pending THEN Append(Unclean(loops), step.loop) ELSE Unclean(loops)
    /\ ev' = Event("replay", Len(step.painted), FALSE, NoOutput)
    /\ hist' = [hist EXCEPT !.replays = @ + 1,
                            !.cur = Disturbed(@),
                            !.runs = IF step.pending THEN @ ELSE Append(@, Run(step.loop))]

animateDrawing(allStrokes) == Started(drawNext(NewLoop(allStrokes), lastWidth))

\* replay() that ends the stroke in progress before it starts
replayEndingStroke ==
    /\ hist.replays < hist.budget.replays
    /\ animateDrawing(strokes)
    /\ currentStroke' = <<>>
    /\ isDrawing' = FALSE
    /\ UNCHANGED <<strokes, lastPoint, lastVelocity, options, now>>

replay ==
    /\ hist.replays < hist.budget.replays
    /\ animateDrawing(strokes)
    /\ UNCHANGED <<strokes, currentStroke, isDrawing, lastPoint, lastVelocity, options, now>>

\* the frame so far (acc) after the callback of a loop did `step`
After(acc, cancelled, step) ==
    [ lastWidth |-> step.lastWidth,
      painted   |-> acc.painted \o step.painted,
      stale     |-> acc.stale \/ (cancelled /\ step.painted # <<>>),
      loops     |-> IF step.pending THEN Append(acc.loops, step.loop) ELSE acc.loops,
      finished  |-> IF step.pending THEN acc.finished ELSE Append(acc.finished, Run(step.loop)) ]

\* the callbacks of one animation frame, in the order they were requested
RECURSIVE RunCallbacks(_, _)
RunCallbacks(ls, acc) ==
    IF ls = <<>> THEN acc
    ELSE RunCallbacks(Tail(ls), After(acc, Head(ls).cancelled, drawNext(Head(ls), acc.lastWidth)))

Delivered(frame) ==
    /\ canvas' = canvas \o frame.painted
    /\ lastWidth' = frame.lastWidth
    /\ loops' = frame.loops
    /\ ev' = Event("frame", Len(frame.painted), frame.stale, NoOutput)
    /\ hist' = [hist EXCEPT !.cur = IF frame.painted # <<>> THEN Disturbed(@) ELSE @,
                            !.runs = @ \o frame.finished]

\* requestAnimationFrame: the browser calls every pending drawNext
AnimationFrame ==
    /\ loops # <<>>
    /\ Delivered(RunCallbacks(loops, [lastWidth |-> lastWidth, painted |-> <<>>,
                                      stale |-> FALSE, loops |-> <<>>, finished |-> <<>>]))
    /\ UNCHANGED <<strokes, currentStroke, isDrawing, lastPoint, lastVelocity, options, now>>

(* ------------------------------ export --------------------------------- *)
\* x.toFixed(2), as the number of hundredths it prints (x >= 0 here)
ToFixed2(x) == (2 * 100 * x[1] + x[2]) \div (2 * x[2])

MoveTo(p) == <<"M", ToFixed2(p.x), ToFixed2(p.y)>>

LineTo(p) == <<"L", ToFixed2(p.x), ToFixed2(p.y)>>

\* the path data with the loop running to the last sample as well
PathDataLoopToEnd(stroke) ==
    <<MoveTo(stroke[1])>>
    \o [i \in 1 .. Len(stroke) - 1 |-> LineTo(stroke[i + 1])]
    \o <<LineTo(stroke[Len(stroke)])>>

\* the path data of one stroke of at least 2 samples
PathData(stroke) ==
    <<MoveTo(stroke[1])>>
    \o [i \in 1 .. Len(stroke) - 2 |-> LineTo(stroke[i + 1])]
    \o <<LineTo(stroke[Len(stroke)])>>

SvgPath(opts, stroke) ==
    [ d             |-> PathData(stroke),
      stroke        |-> opts.color,
      strokeOpacity |-> IF opts.tool = "pencil" THEN <<7, 10>> ELSE Int2R(1),
      strokeWidth   |-> IF opts.tool = "pencil" THEN RMul(opts.maxWidth, Half)
                        ELSE opts.maxWidth ]

\* the paths with only the empty strokes skipped
RECURSIVE SvgPathsKeepShort(_, _)
SvgPathsKeepShort(opts, ss) ==
    IF ss = <<>> THEN <<>>
    ELSE (IF Len(Head(ss)) < 1 THEN <<>> ELSE <<SvgPath(opts, Head(ss))>>)
         \o SvgPathsKeepShort(opts, Tail(ss))

RECURSIVE SvgPaths(_, _)
SvgPaths(opts, ss) ==
    IF ss = <<>> THEN <<>>
    ELSE (IF Len(Head(ss)) < 2 THEN <<>> ELSE <<SvgPath(opts, Head(ss))>>)
         \o SvgPaths(opts, Tail(ss))

generateSVG(ss, width, height) ==
    [ width  |-> width \div Dpr,
      height |-> height \div Dpr,
      paths  |-> SvgPaths(options, ss) ]

download(format) ==
    /\ ev' = IF format = "png"
             THEN Event("download", 0, FALSE, [format |-> "png", image |-> canvas])
             ELSE Event("download", 0, FALSE,
                        [format |-> "svg",
                         image  |-> generateSVG(strokes, RectWidth * Dpr, RectHeight * Dpr)])
    /\ UNCHANGED <<strokes, currentStroke, isDrawing, lastPoint, lastVelocity, lastWidth,
                   options, canvas, loops, now, hist>>

(* ------------------------------ Controls ------------------------------- *)
\* positions of the thickness slider (0.5 .. 10, step 0.1) tried here
ThicknessValues == {<<1, 2>>, <<5, 1>>}

\* positions of the streamline slider (0 .. 0.95, step 0.05) tried here
StreamlineValues == {Zero}

\* colours of the colour picker tried here
ColorValues == {<<255, 0, 0>>}

\* onChange = setOptions: the pad is rendered again with the new options
onChange(newOptions) ==
    /\ hist.optionChanges < hist.budget.optionChanges
    /\ options' = newOptions
    /\ ev' = Event("options", 0, FALSE, NoOutput)
    /\ hist' = [hist EXCEPT !.optionChanges = @ + 1, !.cur = Disturbed(@)]
    /\ UNCHANGED <<strokes, currentStroke, isDrawing, lastPoint, lastVelocity, lastWidth,
                   canvas, loops, now>>

SelectTool(tool) == onChange([options EXCEPT !.tool = tool])

SlideThickness(value) == onChange([options EXCEPT !.maxWidth = value])

SlideStreamline(value) == onChange([options EXCEPT !.streamline = value])

PickColor(value) == onChange([options EXCEPT !.color = value])

Next ==
    \/ \E e \in PointerEvents, t \in ClockReadings : handlePointerDown(e, t)
    \/ \E e \in PointerEvents, t \in ClockReadings : handlePointerMove(e, t)
    \/ handlePointerUp
    \/ clear
    \/ replay
    \/ AnimationFrame
    \/ \E format \in {"png", "svg"} : download(format)
    \/ \E tool \in Tools : SelectTool(tool)
    \/ \E value \in ThicknessValues : SlideThickness(value)
    \/ \E value \in StreamlineValues : SlideStreamline(value)
    \/ \E value \in ColorValues : PickColor(value)

Spec == Init /\ [][Next]_vars

(* --------------------- one stroke under set options --------------------- *)
\* positions of the thickness slider and stylus pressures tried for a single
\* stroke, which may take MaxSweepPoints samples over MaxSweepTime ms
SweepThickness == {<<3, 2>>, <<5, 2>>}

SweepEvents ==
    { [clientX |-> Int2R(3), clientY |-> Int2R(4), pressure |-> Half,     pointerType |-> "mouse"],
      [clientX |-> Int2R(6), clientY |-> Int2R(8), pressure |-> Half,     pointerType |-> "mouse"],
      [clientX |-> Int2R(6), clientY |-> Int2R(8), pressure |-> Zero,     pointerType |-> "pen"],
      [clientX |-> Int2R(6), clientY |-> Int2R(8), pressure |-> Int2R(1), pointerType |-> "pen"] }

\* the options the tool buttons and the thickness slider of Controls left
\* before the pad was touched
ControlledOptions ==
    { [InitialOptions EXCEPT !.tool = tool, !.maxWidth = value] :
          tool \in Tools, value \in SweepThickness }

StrokeInit ==
    /\ options \in ControlledOptions
    /\ Constructed([downs |-> 1, replays |-> 0, optionChanges |-> 0,
                    points |-> MaxSweepPoints, time |-> MaxSweepTime])

StrokeNext ==
    \/ \E e \in SweepEvents, t \in ClockReadings : handlePointerDown(e, t)
    \/ \E e \in SweepEvents, t \in ClockReadings : handlePointerMove(e, t)
    \/ handlePointerUp

StrokeSpec == StrokeInit /\ [][StrokeNext]_vars

(* ------------------- replays while frames keep coming ------------------ *)
\* two strokes and one replay, every pending animation frame being delivered
\* in the end
ReplayInit ==
    /\ options = InitialOptions
    /\ Constructed([downs |-> MaxStrokes, replays |-> 1, optionChanges |-> 0,
                    points |-> MaxPoints, time |-> 0])

ReplayNext ==
    \/ \E e \in PointerEvents, t \in ClockReadings : handlePointerDown(e, t)
    \/ \E e \in PointerEvents, t \in ClockReadings : handlePointerMove(e, t)
    \/ handlePointerUp
    \/ clear
    \/ replay
    \/ AnimationFrame

\* the browser runs the callbacks of every frame asked for: weak fairness of
\* AnimationFrame, written with the condition under which it is enabled
\* (a loop is pending)
FramesDelivered == []<>(loops = <<>>) \/ []<><<AnimationFrame>>_vars

ReplaySpec == ReplayInit /\ [][ReplayNext]_vars /\ FramesDelivered

(* ------------------------------- claims -------------------------------- *)
\* C1: once clear() or a pointer-down has arrived while a replay still has a
\* frame pending, no later frame paints a segment for that replay.
C1_NoPaintAfterCancel == ev.op = "frame" => ~ev.stale

\* C2: a replay that ran to its end, alone on lastWidth, over strokes captured
\* undisturbed under the options it replays with, painted exactly the
\* segments (control points and widths) the live capture painted.
C2_ReplayEqualsLive ==
    \A i \in DOMAIN hist.runs :
        (hist.runs[i].clean /\ hist.runs[i].comparable)
            => hist.runs[i].segs = hist.runs[i].expected

\* C3: two replays that each ran to their end alone on lastWidth, over the
\* same strokes and the same options, painted the same segments.
C3_ReplayDeterministic ==
    \A i, j \in DOMAIN hist.runs :
        ( /\ hist.runs[i].clean /\ hist.runs[j].clean
          /\ hist.runs[i].allStrokes = hist.runs[j].allStrokes
          /\ hist.runs[i].opts = hist.runs[j].opts )
            => hist.runs[i].segs = hist.runs[j].segs

\* the samples the session holds
RECURSIVE SampleCount(_)
SampleCount(ss) == IF ss = <<>> THEN 0 ELSE Len(Head(ss)) + SampleCount(Tail(ss))

\* C4: isEmpty() is true exactly when the session holds no sample at all.
C4_IsEmptyIffNoSamples == isEmpty <=> (SampleCount(strokes) + Len(currentStroke) = 0)

\* C5: clear() leaves no completed stroke, no active stroke and a wiped
\* surface; a second clear() right after it changes nothing; and on an empty
\* session it changes nothing of the session.
C5_ClearIdempotent ==
    [][ev'.op = "clear" =>
          /\ strokes' = <<>> /\ currentStroke' = <<>> /\ canvas' = <<>>
          /\ ev'.again =>
                UNCHANGED <<strokes, currentStroke, canvas, isDrawing, lastPoint,
                            lastVelocity, lastWidth, options, loops, now>>
          /\ isEmpty =>
                UNCHANGED <<strokes, currentStroke, isDrawing, lastPoint,
                            lastVelocity, lastWidth, options, now>>]_vars

\* clear() was called twice in a row
C5_ClearedTwice == ev.op = "clear" /\ ev.again /\ hist.downs > 0

\* C6: the drawing flag is set exactly when the active stroke is non-empty.
C6_DrawingIffActive == isDrawing <=> currentStroke # <<>>

\* C7: the pointer-up that ends a stroke appends one stroke holding exactly
\* the samples accepted since its pointer-down (the down sample and one per
\* move, in order), leaves the earlier strokes alone and empties the active
\* stroke.
C7_CommitAllAccepted ==
    [][(isDrawing /\ ev'.op = "up") =>
          /\ strokes' = Append(strokes, hist.cur.accepted)
          /\ Len(hist.cur.accepted) = hist.moves + 1
          /\ currentStroke' = <<>>]_vars

\* C8: an accepted pointer-move appends exactly one sample to the active
\* stroke and paints exactly one segment if the stroke then has at least 3
\* samples, none otherwise; pointer-up commits a stroke of 1 or 2 samples
\* as it is.
C8_OneSegmentPerSample ==
    [][ /\ (isDrawing /\ ev'.op = "move") =>
              /\ Len(currentStroke') = Len(currentStroke) + 1
              /\ SubSeq(currentStroke', 1, Len(currentStroke)) = currentStroke
              /\ Len(canvas') = Len(canvas) + (IF Len(currentStroke') >= 3 THEN 1 ELSE 0)
              /\ SubSeq(canvas', 1, Len(canvas)) = canvas
              /\ ev'.painted = Len(canvas') - Len(canvas)
        /\ (isDrawing /\ ev'.op = "up" /\ Len(currentStroke) \in {1, 2}) =>
              /\ strokes' = Append(strokes, currentStroke)
              /\ canvas' = canvas ]_vars

\* a 2-sample stroke was committed unpainted and the third sample of the next
\* stroke has just painted its first segment
C8_ThirdSamplePaints ==
    /\ ev.op = "move" /\ ev.painted = 1 /\ Len(currentStroke) = 3
    /\ Len(canvas) = 1
    /\ \E i \in DOMAIN strokes : Len(strokes[i]) = 2

\* the completed strokes the vector export draws
Exported == SelectSeq(strokes, LAMBDA stroke : Len(stroke) >= 2)

SvgJustMade == ev.op = "download" /\ ev.out.format = "svg"

\* C9: the path of a completed stroke of N >= 2 samples holds exactly N point
\* commands: a move-to at the first sample, then a line-to at each later
\* sample, in order.
C9_PathHasNPoints ==
    SvgJustMade =>
        /\ Len(ev.out.image.paths) = Len(Exported)
        /\ \A j \in DOMAIN Exported :
              /\ Len(ev.out.image.paths[j].d) = Len(Exported[j])
              /\ ev.out.image.paths[j].d[1] =
                    <<"M", ToFixed2(Exported[j][1].x), ToFixed2(Exported[j][1].y)>>
              /\ \A k \in 2 .. Len(Exported[j]) :
                    ev.out.image.paths[j].d[k] =
                        <<"L", ToFixed2(Exported[j][k].x), ToFixed2(Exported[j][k].y)>>

\* a stroke of 3 samples was exported
C9_ThreePointPath ==
    /\ SvgJustMade
    /\ \E j \in DOMAIN Exported : Len(Exported[j]) = 3 /\ Len(ev.out.image.paths[j].d) = 3

\* C10: the document holds one path per completed stroke of at least 2
\* samples, in stroke order, none for a shorter stroke, and no path at all
\* for an empty session.
C10_OnePathPerStroke ==
    SvgJustMade =>
        /\ Len(ev.out.image.paths) = Cardinality({i \in DOMAIN strokes : Len(strokes[i]) >= 2})
        /\ \A j \in DOMAIN ev.out.image.paths :
              /\ j <= Len(Exported)
              /\ ev.out.image.paths[j].d[1] = MoveTo(Exported[j][1])
              /\ ev.out.image.paths[j].d[Len(ev.out.image.paths[j].d)]
                    = LineTo(Exported[j][Len(Exported[j])])
        /\ (strokes = <<>> => ev.out.image.paths = <<>>)

\* a 1-sample stroke was skipped and the stroke after it exported
C10_ShortStrokeSkipped ==
    /\ SvgJustMade
    /\ Len(strokes) = 2 /\ Len(strokes[1]) = 1 /\ Len(strokes[2]) >= 2
    /\ Len(ev.out.image.paths) = 1

\* C11: whenever drawCurve has painted under options with minWidth <=
\* maxWidth, the blended width it stroked with and left in lastWidth lies in
\* [min(minWidth, minWidth * 0.5), maxWidth * 1.5].
C11_WidthWithinBounds ==
    (ev.painted > 0 /\ RLe(options.minWidth, options.maxWidth)) =>
        /\ canvas[Len(canvas)].width = lastWidth
        /\ RLe(RMin(options.minWidth, RMul(options.minWidth, Half)), lastWidth)
        /\ RLe(lastWidth, RMul(options.maxWidth, <<3, 2>>))

\* the velocity drawCurve samples rises from each pair of successive samples
\* of the stroke to the next
RisingVelocity(stroke) ==
    \A j \in 2 .. Len(stroke) - 1 :
        RLt(CurveVelocity(stroke[j - 1], stroke[j]), CurveVelocity(stroke[j], stroke[j + 1]))

\* C12: in a stroke drawn with the pen tool (minWidth < maxWidth) by a mouse,
\* with rising velocity, every painted width lies in [minWidth, maxWidth] and each segment is
\* strictly thinner than the segment before it.
C12_PenMouseWidthFalls ==
    ( /\ isDrawing /\ options.tool = "pen"
      /\ RLt(options.minWidth, options.maxWidth)
      /\ Len(canvas) = Len(currentStroke) - 2
      /\ \A i \in DOMAIN currentStroke : currentStroke[i].pointerType = "mouse"
      /\ RisingVelocity(currentStroke) ) =>
        /\ \A k \in DOMAIN canvas :
              RLe(options.minWidth, canvas[k].width) /\ RLe(canvas[k].width, options.maxWidth)
        /\ \A k \in 2 .. Len(canvas) : RLt(canvas[k].width, canvas[k - 1].width)

\* C13: a segment painted with the calligraphy tool around a stylus sample of
\* pressure p (0 included) is blended towards the target width
\* minWidth + (maxWidth * 1.5 - minWidth) * p^2.
C13_CalligraphyPressureSquared ==
    [][( /\ ev'.op = "move" /\ ev'.painted = 1
         /\ options.tool = "calligraphy"
         /\ currentStroke[Len(currentStroke)].pointerType = "pen" ) =>
            lastWidth' =
                RAdd(RMul(lastWidth, <<3, 5>>),
                     RMul(RAdd(options.minWidth,
                               RMul(RSub(RMul(options.maxWidth, <<3, 2>>), options.minWidth),
                                    RSquare(currentStroke[Len(currentStroke)].pressure))),
                          <<2, 5>>))]_vars

\* the ink of the claim: the configured colour, at 70% alpha for the pencil
\* and opaque for the other tools
InkOf(opts) ==
    [ r |-> opts.color[1], g |-> opts.color[2], b |-> opts.color[3],
      alpha |-> IF opts.tool = "pencil" THEN <<7, 10>> ELSE <<1, 1>> ]

\* C14: every segment drawCurve paints, in live drawing and in every replay
\* loop, carries the configured colour of the options it runs with, at
\* alpha 0.7 when their tool is the pencil and opaque otherwise.
C14_PencilAlpha ==
    [][ /\ (ev'.op = "move" /\ ev'.painted > 0) =>
               canvas'[Len(canvas')].style = InkOf(options)
        /\ \A i \in DOMAIN loops' : \A k \in DOMAIN loops'[i].segs :
               loops'[i].segs[k].style = InkOf(loops'[i].opts)
        /\ \A i \in DOMAIN hist'.runs : \A k \in DOMAIN hist'.runs[i].segs :
               hist'.runs[i].segs[k].style = InkOf(hist'.runs[i].opts) ]_vars

\* a replay under the pencil tool has painted, and so has live drawing
C14_PencilReplayed ==
    /\ \E i \in DOMAIN hist.runs :
           hist.runs[i].opts.tool = "pencil" /\ hist.runs[i].segs # <<>>
    /\ \E i \in DOMAIN hist.live : hist.live[i].segs # <<>>

\* C15: replay(), every animation frame of a replay and download() leave
\* the completed strokes, the active stroke and the drawing flag unchanged.
C15_ReplayExportReadOnly ==
    [][ev'.op \in {"replay", "frame", "download"} =>
            UNCHANGED <<strokes, currentStroke, isDrawing>>]_vars

\* a replay frame has painted while a stroke is being drawn beside a
\* completed one
C15_FrameWhileDrawing ==
    /\ ev.op = "frame" /\ ev.painted > 0
    /\ isDrawing /\ currentStroke # <<>> /\ strokes # <<>>

\* the pending loops whose next callback does not find them at their end
Alive == SelectSeq(loops, LAMBDA l : l.strokeIdx < Len(l.allStrokes))

\* what C16 says of one step: replay() wipes the surface and starts its stepper at (0, 0), whose
\* first step is taken at once; on an empty session it asks for no frame;
\* each frame moves every stepper to the next point or to the start of the
\* next stroke and drops a stepper that stands at the number of its strokes;
\* nothing else moves a stepper; and, frames being delivered, every stepper
\* is dropped in the end.
StepperStep ==
    /\ (ev'.op = "replay") =>
          ( /\ Len(canvas') = ev'.painted
            /\ (strokes = <<>>) => (Len(loops') = Len(loops))
            /\ (strokes # <<>>) =>
                  ( /\ Len(loops') = Len(loops) + 1
                    /\ <<loops'[Len(loops')].strokeIdx, loops'[Len(loops')].pointIdx>>
                          \in {<<0, 1>>, <<1, 0>>} ) )
    /\ (ev'.op = "frame") =>
          ( /\ Len(loops') = Len(Alive)
            /\ \A i \in DOMAIN Alive :
                  \/ /\ loops'[i].strokeIdx = Alive[i].strokeIdx
                     /\ loops'[i].pointIdx = Alive[i].pointIdx + 1
                  \/ /\ loops'[i].strokeIdx = Alive[i].strokeIdx + 1
                     /\ loops'[i].pointIdx = 0 )
    /\ (ev'.op \notin {"replay", "frame"}) =>
          ( /\ Len(loops') = Len(loops)
            /\ \A i \in DOMAIN loops :
                  /\ loops'[i].strokeIdx = loops[i].strokeIdx
                  /\ loops'[i].pointIdx = loops[i].pointIdx )

\* C16, stated: every step is a step of the steppers as described, and a
\* pending stepper leads to none pending.
C16_StepperTerminates ==
    /\ [][StepperStep]_vars
    /\ (loops # <<>>) ~> (loops = <<>>)

\* a replay of two strokes has painted and run to its end
C16_TwoStrokesReplayed ==
    \E i \in DOMAIN hist.runs :
        Len(hist.runs[i].allStrokes) = 2 /\ hist.runs[i].segs # <<>>

\* C17: no completed stroke is empty.
C17_StrokesNonEmpty == \A i \in DOMAIN strokes : strokes[i] # <<>>

\* the samples the session holds, in order
Held == Flatten(strokes) \o currentStroke

\* C18: but for clear(), every step keeps every sample held so far, once
\* each and in order, and a pointer-down or an accepted pointer-move adds
\* exactly its sample.
C18_EverySampleKept ==
    [][ev'.op # "clear" =>
            Held' = Held \o (IF ev'.op = "down" \/ (ev'.op = "move" /\ isDrawing)
                             THEN <<lastPoint'>> ELSE <<>>)]_vars

\* C19: the times of the successive samples of every stroke, active or
\* completed, increase strictly.
C19_TimesIncrease ==
    /\ \A k \in 2 .. Len(currentStroke) : currentStroke[k - 1].time < currentStroke[k].time
    /\ \A i \in DOMAIN strokes : \A k \in 2 .. Len(strokes[i]) :
           strokes[i][k - 1].time < strokes[i][k].time

\* C20: a pointer-down leaves the down sample alone in the active stroke and
\* in lastPoint, and in lastWidth the guess its options and event give:
\* maxWidth * 0.5 for the pencil, minWidth + (maxWidth - minWidth) * pressure
\* for a stylus (0.5 for no pressure), (minWidth + maxWidth) / 2 otherwise.
C20_DownResetsWidth ==
    [][ev'.op = "down" =>
          /\ currentStroke' = <<lastPoint'>>
          /\ lastWidth' =
                IF options.tool = "pencil" THEN RMul(options.maxWidth, Half)
                ELSE IF lastPoint'.pointerType = "pen" THEN
                    RAdd(options.minWidth,
                         RMul(RSub(options.maxWidth, options.minWidth),
                              IF lastPoint'.pressure = Zero THEN Half
                              ELSE lastPoint'.pressure))
                ELSE RDiv(RAdd(options.minWidth, options.maxWidth), Int2R(2))]_vars

\* a pointer-down came after a replay that painted an earlier stroke
C20_DownAfterReplay ==
    /\ ev.op = "down" /\ strokes # <<>>
    /\ \/ \E i \in DOMAIN hist.runs : hist.runs[i].segs # <<>>
       \/ \E i \in DOMAIN loops : loops[i].segs # <<>>

\* the raw samples a pointer event read at time t can be
RawSamples(t) == { getPoint(e, t) : e \in PointerEvents }

\* the streamline in effect: halved for the pencil
StreamlineInEffect ==
    IF options.tool = "pencil" THEN RDiv(options.streamline, Int2R(2)) ELSE options.streamline

\* prev * s + raw * (1 - s)
Weighted(prev, raw, s) == RAdd(RMul(prev, s), RMul(raw, RSub(Int2R(1), s)))

\* the sample the stabilizer stores for the raw sample, s being in effect
Filtered(prev, raw, s) ==
    IF RLt(Zero, s)
    THEN [ x           |-> Weighted(prev.x, raw.x, s),
           y           |-> Weighted(prev.y, raw.y, s),
           pressure    |-> raw.pressure,
           time        |-> raw.time,
           pointerType |-> raw.pointerType ]
    ELSE raw

StabilizerStep ==
    (ev'.op = "move" /\ isDrawing /\ currentStroke' # currentStroke)
        => /\ currentStroke' = Append(currentStroke, lastPoint')
           /\ \E raw \in RawSamples(now') :
                  lastPoint' = Filtered(lastPoint, raw, StreamlineInEffect)

\* C21: every pointer-move accepted while drawing stores the raw sample with
\* x and y pulled towards the previously stored sample, prev * s + raw * (1 - s)
\* for the streamline s in effect (halved for the pencil), and with the raw
\* time, pressure and pointerType; with s = 0 it stores the raw sample.
C21_StabilizerLerp == [][StabilizerStep]_vars

\* C21 witness: a move stored under the pencil strictly between the previous
\* sample and every raw position
C21_PencilMoveStabilized ==
    /\ ev.op = "move" /\ isDrawing /\ options.tool = "pencil"
    /\ Len(currentStroke) >= 2
    /\ RLt(Zero, options.streamline)
    /\ \A raw \in RawSamples(now) : lastPoint.x # raw.x

\* distance(a, b) / max(1, b.time - a.time)
FlooredVelocity(a, b) ==
    RDiv(getDistance(a, b), Int2R(IF b.time - a.time > 1 THEN b.time - a.time ELSE 1))

\* C22: the velocity drawCurve computes for two successive samples a, b of
\* the active stroke equals distance(a, b) / max(1, b.time - a.time).
C22_CurveVelocityFloored ==
    \A k \in 2 .. Len(currentStroke) :
        CurveVelocity(currentStroke[k - 1], currentStroke[k])
            = FlooredVelocity(currentStroke[k - 1], currentStroke[k])

\* C23: after any sequence of Controls changes from the initial options,
\* minWidth <= maxWidth and 0 <= streamline <= 1.
C23_OptionsWellFormed ==
    /\ RLe(options.minWidth, options.maxWidth)
    /\ RLe(Zero, options.streamline)
    /\ RLe(options.streamline, Int2R(1))

\* a pointer-up or pointer-leave step; one that finds no stroke in progress;
\* one that follows another directly
IdleUpStep ==
    (ev'.op = "up" /\ ~isDrawing)
        => UNCHANGED <<strokes, currentStroke, isDrawing, lastPoint, lastVelocity,
                       lastWidth, canvas, loops, options>>

SecondUpStep == (ev.op = "up" /\ ev'.op = "up") => strokes' = strokes

\* C24: a pointer-up or pointer-leave that finds no stroke in progress leaves
\* the completed strokes, the active stroke, the render memory and the
\* surface as they are; so of a pointer-up directly followed by a
\* pointer-leave only the first commits the stroke.
C24_IdleUpChangesNothing == [][IdleUpStep /\ SecondUpStep]_vars

\* C24 witness: a pointer-up and a pointer-leave in a row after a stroke of
\* two samples, which is there once
C24_UpThenLeaveCommittedOnce ==
    /\ ev.op = "up" /\ ev.again /\ ~isDrawing
    /\ Len(strokes) = 1 /\ Len(strokes[1]) >= 2

\* C25: no animation frame runs the paint step of more than one replay
\* loop: a loop paints at most one segment in a frame, so a frame paints at
\* most one.
C25_OneLoopPaints == ev.op = "frame" => ev.painted <= 1

\* max(0, N - 2) summed over the strokes: one paint for each window ending
\* at sample index 2 .. N-1
RECURSIVE WindowCount(_)
WindowCount(ss) ==
    IF ss = <<>> THEN 0
    ELSE (IF Len(Head(ss)) > 2 THEN Len(Head(ss)) - 2 ELSE 0) + WindowCount(Tail(ss))

\* C26: a replay that ran to its end called the paint step max(0, N - 2)
\* times for each stroke of N samples it replayed.
C26_OnePaintPerWindow ==
    \A i \in DOMAIN hist.runs :
        Len(hist.runs[i].segs) = WindowCount(hist.runs[i].allStrokes)

====
